---- MODULE Spec2Model ----
(***************************************************************************)
(* Model of eyeball's Observable<T> / Subscriber<T> (src/observable.rs).   *)
(*                                                                         *)
(* The Observable owns `value` and the Sender of a tokio broadcast channel *)
(* created with capacity 1; every Subscriber owns a BroadcastStream over   *)
(* one Receiver of that channel.  The channel is modelled as tokio         *)
(* implements it: a ring buffer of Capacity slots, each stamped with the   *)
(* position of the value it holds, a tail (next write position, receiver   *)
(* count, closed flag) and one read cursor per receiver.                   *)
(*                                                                         *)
(* The writer (owner of the Observable) and the tasks pulling from the     *)
(* Subscribers run concurrently: a subscriber may poll or be dropped       *)
(* between the receiver_count check and the send of broadcast_update, and  *)
(* the writer may publish between two iterations of the loop of poll_next. *)
(*                                                                         *)
(* The channel and the stream over it are tokio's: they are modelled as    *)
(* documented there.  A send with no receiver fails and stores nothing; a  *)
(* receiver that fell behind by more than the capacity is told Lagged(n)   *)
(* once and its cursor moves to the oldest retained value; dropping the    *)
(* last Sender closes the channel, and a receiver is told Closed once it   *)
(* has received the values the channel retains.                            *)
(***************************************************************************)
EXTENDS Integers, Sequences, FiniteSets, TLC

\* broadcast::channel(1)
Capacity == 1

\* bounds of the model
MaxVal == 2
MaxSubs == 2
MaxPublish == 3

Values == 0..MaxVal
SubIds == 1..MaxSubs
\* the closures passed to update / update_eq / update_hash
Mutators ==
    {[x \in Values |-> c] : c \in Values}
        \cup {[x \in Values |-> x], [x \in Values |-> (x + 1) % (MaxVal + 1)]}

VARIABLES
    value,   \* Observable.value
    alive,   \* the Observable has not been dropped
    tail,    \* channel tail: pos (next write position), rx_cnt, closed
    buffer,  \* channel slots: pos (position of the value held), val, and
             \* pub (history: the publish the value comes from)
    subs,    \* per subscriber: the handle, its cursor and what it has yielded
    wpc,     \* writer position: "idle", or "send" inside broadcast_update
    call,    \* history: the last call on the Observable (op; "new" and "drop"
             \* for its creation and its drop), what it returned (ret;
             \* <<>>: nothing) and whether its send failed (err)
    log      \* history: the values published (handed to broadcast_update), in order

vars == <<value, alive, tail, buffer, subs, wpc, call, log>>

Last(q) == q[Len(q)]

----------------------------------------------------------------------------
\* T: Hash. Distinct values may share a hash (0 and 1 do).
Hash(v) == v \div 2

\* A subscriber: st is "none" (not created yet), "live" or "dropped"; next is
\* the cursor of its receiver; pc is "ready" (between two pulls), "retry"
\* (inside poll_next, after a Lagged), "parked" (the last pull returned
\* Pending and the task waits to be woken) or "ended" (the last pull returned
\* end-of-sequence).  History: since (the tail position at subscribe),
\* yielded (what its pulls returned), missed (the sum of the Lagged counts).
NoSub ==
    [st |-> "none", next |-> 0, pc |-> "ready", yielded |-> <<>>, since |-> 0,
     missed |-> 0]

DroppedSub == [NoSub EXCEPT !.st = "dropped"]

\* Observable::new: the value and a channel with no receiver; slot i starts
\* stamped i - Capacity, so that it reads as empty for a cursor at i.
Init ==
    /\ value \in Values
    /\ alive = TRUE
    /\ tail = [pos |-> 0, rx_cnt |-> 0, closed |-> FALSE]
    /\ buffer = [i \in 0..(Capacity - 1) |-> [pos |-> i - Capacity, val |-> <<>>, pub |-> 0]]
    /\ subs = [s \in SubIds |-> NoSub]
    /\ wpc = "idle"
    /\ call = [op |-> "new", ret |-> <<>>, err |-> FALSE]
    /\ log = <<>>

Live(s) == subs[s].st = "live"

\* Observable::get
Get == value

\* Sender::receiver_count
ReceiverCount == tail.rx_cnt

\* every waker registered with the channel is woken (on send and on close)
WakeAll(ss) ==
    [s \in SubIds |-> IF ss[s].pc = "parked" THEN [ss[s] EXCEPT !.pc = "ready"] ELSE ss[s]]

\* Faulty variant: the Observable can still be called after it was dropped
CanCall_Dropped == wpc = "idle" /\ Len(log) < MaxPublish

\* A call on the Observable needs the Observable, with no other call running;
\* the model stops after MaxPublish publishes.
CanCall == alive /\ wpc = "idle" /\ Len(log) < MaxPublish

----------------------------------------------------------------------------
\* Faulty variant: the new receiver starts at the value the channel retains
SubscribeCursor_Replay == IF tail.pos > 0 THEN tail.pos - 1 ELSE 0

\* sender.subscribe(): the cursor of the new receiver is the tail position
SubscribeCursor == tail.pos

\* Observable::subscribe: a new Receiver, wrapped in a Subscriber.
Subscribe ==
    /\ alive /\ wpc = "idle"
    /\ \E s \in SubIds :
        /\ subs[s].st = "none"
        /\ \A t \in SubIds : t < s => subs[t].st # "none"
        /\ subs' = [subs EXCEPT ![s] =
                [NoSub EXCEPT !.st = "live", !.next = SubscribeCursor, !.since = Len(log)]]
    /\ tail' = [tail EXCEPT !.rx_cnt = @ + 1]
    /\ UNCHANGED <<value, alive, buffer, wpc, call, log>>

\* Faulty variant: the send is skipped unless there are two receivers or more
BroadcastUpdate_MoreThanOne == wpc' = IF ReceiverCount > 1 THEN "send" ELSE "idle"

\* Faulty variant: the check is inverted: the send is tried only with no receiver
BroadcastUpdate_Inverted == wpc' = IF ReceiverCount = 0 THEN "send" ELSE "idle"

\* broadcast_update, up to the send: the receiver_count check.
BroadcastUpdate == wpc' = IF ReceiverCount # 0 THEN "send" ELSE "idle"

\* The call returns without calling broadcast_update.
NoBroadcast == wpc' = "idle"

\* History: the call publishes v / publishes nothing.
Published(v) == log' = Append(log, v)
NotPublished == log' = log

\* Faulty variant: replace returns the value it installs
ReplaceResult_New(old, new) == new

\* Observable::replace returns what mem::replace returns: the old value.
ReplaceResult(old, new) == old

\* Observable::replace: mem::replace, then broadcast_update.
Replace(v) ==
    /\ CanCall
    /\ value' = v
    /\ BroadcastUpdate /\ Published(v)
    /\ call' = [op |-> "replace", ret |-> <<ReplaceResult(value, v)>>, err |-> FALSE]
    /\ UNCHANGED <<alive, tail, buffer, subs>>

\* Faulty variant: with no receiver set returns early, the value not installed
Set_NeedsReceiver(v) ==
    /\ CanCall
    /\ value' = IF ReceiverCount # 0 THEN v ELSE value
    /\ BroadcastUpdate /\ Published(v)
    /\ call' = [op |-> "set", ret |-> <<>>, err |-> FALSE]
    /\ UNCHANGED <<alive, tail, buffer, subs>>

\* Observable::set: Self::replace(this, value), the result discarded.
Set(v) ==
    /\ CanCall
    /\ value' = v
    /\ BroadcastUpdate /\ Published(v)
    /\ call' = [op |-> "set", ret |-> <<>>, err |-> FALSE]
    /\ UNCHANGED <<alive, tail, buffer, subs>>

\* Faulty variant: the closure is applied to a copy: the held value is not updated
Update_LostWrite(f) ==
    /\ CanCall
    /\ value' = value
    /\ BroadcastUpdate /\ Published(f[value])
    /\ call' = [op |-> "update", ret |-> <<>>, err |-> FALSE]
    /\ UNCHANGED <<alive, tail, buffer, subs>>

\* Faulty variant: update broadcasts only when the closure changed the value
Update_OnlyIfChanged(f) ==
    /\ CanCall
    /\ value' = f[value]
    /\ IF f[value] # value
       THEN BroadcastUpdate /\ Published(f[value])
       ELSE NoBroadcast /\ NotPublished
    /\ call' = [op |-> "update", ret |-> <<>>, err |-> FALSE]
    /\ UNCHANGED <<alive, tail, buffer, subs>>

\* Observable::update: the closure, then broadcast_update.
Update(f) ==
    /\ CanCall
    /\ value' = f[value]
    /\ BroadcastUpdate /\ Published(f[value])
    /\ call' = [op |-> "update", ret |-> <<>>, err |-> FALSE]
    /\ UNCHANGED <<alive, tail, buffer, subs>>

\* Faulty variant: the comparison is dropped: update_eq always broadcasts
ValueChanged_Always(new, prev) == TRUE

\* Faulty variant: update_eq compares the hashes, as update_hash does
ValueChanged_ByHash(new, prev) == Hash(new) # Hash(prev)

\* update_eq: `this.value != prev`
ValueChanged(new, prev) == new # prev

\* Observable::update_eq
UpdateEq(f) ==
    /\ CanCall
    /\ value' = f[value]
    /\ IF ValueChanged(f[value], value)
       THEN BroadcastUpdate /\ Published(f[value])
       ELSE NoBroadcast /\ NotPublished
    /\ call' = [op |-> "update_eq", ret |-> <<>>, err |-> FALSE]
    /\ UNCHANGED <<alive, tail, buffer, subs>>

\* Faulty variant: the comparison of the hashes is inverted
HashChanged_Inverted(new, prev) == Hash(new) = Hash(prev)

\* update_hash: `prev_hash != new_hash`
HashChanged(new, prev) == Hash(new) # Hash(prev)

\* Observable::update_hash
UpdateHash(f) ==
    /\ CanCall
    /\ value' = f[value]
    /\ IF HashChanged(f[value], value)
       THEN BroadcastUpdate /\ Published(f[value])
       ELSE NoBroadcast /\ NotPublished
    /\ call' = [op |-> "update_hash", ret |-> <<>>, err |-> FALSE]
    /\ UNCHANGED <<alive, tail, buffer, subs>>

\* Faulty variant: replace sends the value it is about to return, the old one
SentValue_Stale == IF call.ret # <<>> THEN call.ret[1] ELSE value

\* The value handed to the channel: this.value.clone()
SentValue == value

\* Sender::send returns Err(SendError) when the channel has no receiver
SendFails == tail.rx_cnt = 0

\* Faulty variant: .unwrap() instead of .unwrap_or(0): a failed send panics
AfterSend_Unwrap(err) == IF err THEN "panicked" ELSE "idle"

\* .unwrap_or(0): the result of the send, error or not, is turned into a
\* count that only the trace message uses; broadcast_update returns.
AfterSend(err) == "idle"

\* broadcast_update, the send: sender.send(this.value.clone()).unwrap_or(0).
\* With no receiver left the send fails and the error is dropped; otherwise
\* the value is written to slot pos % Capacity, stamped pos, the tail
\* advances and the waiting receivers are woken.
SenderSend ==
    /\ wpc = "send"
    /\ wpc' = AfterSend(SendFails)
    /\ IF SendFails
       THEN UNCHANGED <<tail, buffer, subs>>
       ELSE /\ buffer' = [buffer EXCEPT ![tail.pos % Capacity] =
                              [pos |-> tail.pos, val |-> <<SentValue>>, pub |-> Len(log)]]
            /\ tail' = [tail EXCEPT !.pos = @ + 1]
            /\ subs' = WakeAll(subs)
    /\ call' = [call EXCEPT !.err = SendFails]
    /\ UNCHANGED <<value, alive, log>>

\* Dropping the Observable drops the only Sender: the channel is closed and
\* the waiting receivers are woken.
WakeOnClose(ss) == WakeAll(ss)

DropObservable ==
    /\ alive /\ wpc = "idle"
    /\ alive' = FALSE
    /\ tail' = [tail EXCEPT !.closed = TRUE]
    /\ subs' = WakeOnClose(subs)
    /\ call' = [op |-> "drop", ret |-> <<>>, err |-> FALSE]
    /\ UNCHANGED <<value, buffer, wpc, log>>

----------------------------------------------------------------------------
\* Faulty variant: a receiver that fell behind is handed the oldest retained
\* value at once, with no Lagged signal
InnerPoll_SilentSkip(next) ==
    LET slot == buffer[next % Capacity]
        oldest == tail.pos - Capacity
        kept == buffer[oldest % Capacity]
    IN  IF slot.pos = next
        THEN [res |-> "Value", item |-> [pub |-> slot.pub, val |-> slot.val[1]],
              next |-> next + 1, missed |-> 0]
        ELSE IF slot.pos + Capacity = next
        THEN [res |-> IF tail.closed THEN "Closed" ELSE "Empty", item |-> <<>>,
              next |-> next, missed |-> 0]
        ELSE [res |-> "Value", item |-> [pub |-> kept.pub, val |-> kept.val[1]],
              next |-> oldest + 1, missed |-> 0]

\* Faulty variant: a closed channel is reported before the values it retains
InnerPoll_ClosedFirst(next) ==
    LET slot == buffer[next % Capacity]
        oldest == tail.pos - Capacity
    IN  IF tail.closed
        THEN [res |-> "Closed", item |-> <<>>, next |-> next, missed |-> 0]
        ELSE IF slot.pos = next
        THEN [res |-> "Value", item |-> [pub |-> slot.pub, val |-> slot.val[1]],
              next |-> next + 1, missed |-> 0]
        ELSE IF slot.pos + Capacity = next
        THEN [res |-> "Empty", item |-> <<>>, next |-> next, missed |-> 0]
        ELSE [res |-> "Lagged", item |-> <<>>, next |-> oldest, missed |-> oldest - next]

\* One poll of the BroadcastStream (Receiver::recv on cursor `next`):
\*   Value  - the slot at the cursor holds the value of that position
\*   Closed - nothing unread and the channel is closed  (Ready(None))
\*   Empty  - nothing unread                            (Pending)
\*   Lagged - the value at the cursor was overwritten: the cursor moves to the
\*            oldest retained position and the number missed is reported
InnerPoll(next) ==
    LET slot == buffer[next % Capacity]
        oldest == tail.pos - Capacity
    IN  IF slot.pos = next
        THEN [res |-> "Value", item |-> [pub |-> slot.pub, val |-> slot.val[1]],
              next |-> next + 1, missed |-> 0]
        ELSE IF slot.pos + Capacity = next
        THEN [res |-> IF tail.closed THEN "Closed" ELSE "Empty", item |-> <<>>,
              next |-> next, missed |-> 0]
        ELSE [res |-> "Lagged", item |-> <<>>, next |-> oldest, missed |-> oldest - next]

\* Faulty variant: a Lagged ends the sequence instead of being retried
PollMatch_LaggedEnds(res) ==
    CASE res = "Value"  -> "Ready"
      [] res = "Closed" -> "End"
      [] res = "Lagged" -> "End"
      [] res = "Empty"  -> "Pending"

\* Faulty variant: a Lagged is reported as Pending instead of being retried
PollMatch_LaggedPends(res) ==
    CASE res = "Value"  -> "Ready"
      [] res = "Closed" -> "End"
      [] res = "Lagged" -> "Pending"
      [] res = "Empty"  -> "Pending"

\* Faulty variant: the closed channel is reported as Pending
PollMatch_ClosedPends(res) ==
    CASE res = "Value"  -> "Ready"
      [] res = "Closed" -> "Pending"
      [] res = "Lagged" -> "continue"
      [] res = "Empty"  -> "Pending"

\* The match of Subscriber::poll_next on the inner poll.
PollMatch(res) ==
    CASE res = "Value"  -> "Ready"
      [] res = "Closed" -> "End"
      [] res = "Lagged" -> "continue"
      [] res = "Empty"  -> "Pending"

\* Subscriber::poll_next, one iteration of its loop.  A task that got Pending
\* is parked until the channel wakes it.
PollNext(s) ==
    /\ subs[s].st = "live" /\ subs[s].pc # "parked"
    /\ LET r == InnerPoll(subs[s].next)
           m == PollMatch(r.res)
           polled == [subs[s] EXCEPT !.next = r.next, !.missed = @ + r.missed]
       IN  subs' = [subs EXCEPT ![s] =
             CASE m = "Ready" -> [polled EXCEPT !.pc = "ready", !.yielded = Append(@, r.item)]
               [] m = "End" -> [polled EXCEPT !.pc = "ended"]
               [] m = "continue" -> [polled EXCEPT !.pc = "retry"]
               [] m = "Pending" -> [polled EXCEPT !.pc = "parked"]]
    /\ UNCHANGED <<value, alive, tail, buffer, wpc, call, log>>

\* Faulty variant: dropping one Subscriber leaves the channel with no receiver
DropSubscriber_DropsAll(s) ==
    /\ subs[s].st = "live" /\ subs[s].pc # "retry"
    /\ subs' = [subs EXCEPT ![s] = DroppedSub]
    /\ tail' = [tail EXCEPT !.rx_cnt = 0]
    /\ UNCHANGED <<value, alive, buffer, wpc, call, log>>

\* Dropping a Subscriber drops its Receiver (not while it is being polled).
DropSubscriber(s) ==
    /\ subs[s].st = "live" /\ subs[s].pc # "retry"
    /\ subs' = [subs EXCEPT ![s] = DroppedSub]
    /\ tail' = [tail EXCEPT !.rx_cnt = @ - 1]
    /\ UNCHANGED <<value, alive, buffer, wpc, call, log>>

----------------------------------------------------------------------------
Next ==
    \/ Subscribe
    \/ \E v \in Values : Set(v)
    \/ \E v \in Values : Replace(v)
    \/ \E f \in Mutators : Update(f)
    \/ \E f \in Mutators : UpdateEq(f)
    \/ \E f \in Mutators : UpdateHash(f)
    \/ SenderSend
    \/ DropObservable
    \/ \E s \in SubIds : PollNext(s)
    \/ \E s \in SubIds : DropSubscriber(s)

Spec == Init /\ [][Next]_vars

\* The scenario of the specification: Observable::new(0); subscribe -> s1;
\* set(1); subscribe -> s2; set(2); drop the Observable.  The writer runs
\* these calls in this order while the two subscribers are pulled at any
\* time, or not at all, in between; a subscriber may also be abandoned
\* (dropped) by its owner instead of being pulled to completion.
ScenarioInit == Init /\ value = 0

ScenarioSubscribe ==
    /\ \/ log = <<>> /\ subs[1].st = "none"
       \/ log = <<1>> /\ subs[2].st = "none"
    /\ Subscribe

ScenarioSet ==
    \/ log = <<>> /\ subs[1].st # "none" /\ Set(1)
    \/ log = <<1>> /\ subs[2].st # "none" /\ Set(2)

ScenarioDrop == log = <<1, 2>> /\ DropObservable

ScenarioNext ==
    \/ ScenarioSubscribe
    \/ ScenarioSet
    \/ SenderSend
    \/ ScenarioDrop
    \/ \E s \in SubIds : PollNext(s)
    \/ \E s \in SubIds : DropSubscriber(s)

ScenarioSpec == ScenarioInit /\ [][ScenarioNext]_vars

\* The executor keeps polling every task that is not parked, and the writer
\* finishes the call it is in.
FairSpec ==
    /\ Spec
    /\ \A s \in SubIds : WF_vars(PollNext(s))
    /\ WF_vars(SenderSend)

\* A writer that never stops publishing.  The channel compares positions
\* through their differences only (wrapping arithmetic on u64), so that
\* renumbering every position by the same multiple of Capacity changes
\* nothing the program can observe.  Renumber brings the tail back to
\* Capacity and forgets the history; with it the calls of a writer that
\* goes on for ever are covered by finitely many states.
Renumber ==
    LET d == tail.pos - Capacity
    IN  /\ alive /\ wpc = "idle"
        /\ d > 0 /\ d % Capacity = 0
        /\ \A s \in SubIds : Live(s) => subs[s].next >= d
        /\ tail' = [tail EXCEPT !.pos = @ - d]
        /\ buffer' = [i \in DOMAIN buffer |->
                            [buffer[i] EXCEPT !.pos = @ - d, !.pub = 0]]
        /\ subs' = [s \in SubIds |->
                IF Live(s)
                THEN [subs[s] EXCEPT !.next = @ - d, !.yielded = <<>>,
                                     !.since = 0, !.missed = 0]
                ELSE subs[s]]
        /\ log' = <<>>
        /\ UNCHANGED <<value, alive, wpc, call>>

WriterLoopNext ==
    \/ Subscribe
    \/ \E v \in Values : Set(v)
    \/ SenderSend
    \/ DropObservable
    \/ \E s \in SubIds : PollNext(s)
    \/ \E s \in SubIds : DropSubscriber(s)
    \/ Renumber

\* The executor keeps polling every task that is not parked and the writer
\* finishes the call it is in; nothing bounds the number of calls.
WriterLoopSpec ==
    /\ Init /\ [][WriterLoopNext]_vars
    /\ \A s \in SubIds : WF_vars(PollNext(s))
    /\ WF_vars(SenderSend)

----------------------------------------------------------------------------
\* Vocabulary of the properties.

\* values the channel holds, or held, that the receiver has not passed yet
Unread(s) == tail.pos - subs[s].next

\* a publish the writer has not handed to the channel yet
InFlight == IF wpc = "send" THEN 1 ELSE 0

\* the values published since s subscribed
PublishedSince(s) == SubSeq(log, subs[s].since + 1, Len(log))

YieldedVals(s) == [i \in 1..Len(subs[s].yielded) |-> subs[s].yielded[i].val]

YieldedPubs(s) == [i \in 1..Len(subs[s].yielded) |-> subs[s].yielded[i].pub]

\* s has pulled every value before the next one was published
NeverLagged(s) == subs[s].missed = 0 /\ Unread(s) <= Capacity

----------------------------------------------------------------------------
\* C1: a subscriber that never lags yields exactly the values published
\* since it subscribed, in publish order (at any moment: a prefix of them,
\* short only of the value it has not pulled yet and of the publish still in
\* the writer's hands), and once the Observable is dropped and all of them
\* are yielded, its next pull reports end-of-sequence, and never earlier.
C1_Exact(s) ==
    LET n == Len(subs[s].yielded)
    IN  /\ YieldedVals(s) = SubSeq(log, subs[s].since + 1, subs[s].since + n)
        /\ n + Unread(s) + InFlight = Len(log) - subs[s].since
        /\ subs[s].pc = "ended" => ~alive /\ YieldedVals(s) = PublishedSince(s)

C1_EndAfterDrop(s) ==
    (PollNext(s) /\ ~alive /\ Len(subs[s].yielded) = Len(log) - subs[s].since)
        => subs'[s].pc = "ended"

C1_NoLagExactThenEnd ==
    /\ [](\A s \in SubIds : (Live(s) /\ NeverLagged(s)) => C1_Exact(s))
    /\ [][\A s \in SubIds : NeverLagged(s) => C1_EndAfterDrop(s)]_vars

C1_Witness ==
    \E s \in SubIds :
        /\ Live(s) /\ NeverLagged(s) /\ subs[s].pc = "ended"
        /\ Len(subs[s].yielded) = Len(log) - subs[s].since
        /\ Len(subs[s].yielded) >= 2

----------------------------------------------------------------------------
\* C2 (as stated): in the scenario, whether or not s1 and s2 are pulled
\* before the drop, s1 pulled to completion yields 1, 2, end and s2 yields
\* 2, end.
C2_Original ==
    /\ subs[1].pc = "ended" => YieldedVals(1) = <<1, 2>>
    /\ subs[2].pc = "ended" => YieldedVals(2) = <<2>>

\* C2 (amended): in the scenario s2 pulled to completion yields 2, end; s1
\* yields 1, 2, end when it pulled 1 before set(2) reached the channel, and
\* 2, end otherwise (the single slot then holds 2 and 1 is skipped).
C2_AmendedEnd ==
    /\ subs[1].pc = "ended" =>
            YieldedVals(1) = IF NeverLagged(1) THEN <<1, 2>> ELSE <<2>>
    /\ subs[2].pc = "ended" => YieldedVals(2) = <<2>>

C2_LagIffNotPulled ==
    (SenderSend /\ log = <<1, 2>> /\ Live(1))
        => (NeverLagged(1)' <=> YieldedVals(1) = <<1>>)

C2_Scenario == []C2_AmendedEnd /\ [][C2_LagIffNotPulled]_vars

C2_Witness ==
    /\ ~alive /\ subs[1].pc = "ended" /\ subs[2].pc = "ended"
    /\ YieldedVals(1) = <<1, 2>> /\ YieldedVals(2) = <<2>>

----------------------------------------------------------------------------
\* C3: whatever the interleaving, what a subscriber has yielded is an
\* order-preserving subsequence of the values published after it subscribed:
\* every yielded value is the value of one publish made after the subscribe,
\* and the publishes yielded are strictly increasing (none out of order,
\* none twice).
C3_YieldedIsSubsequence ==
    \A s \in SubIds : Live(s) =>
        \A i \in 1..Len(subs[s].yielded) :
            LET y == subs[s].yielded[i]
            IN  /\ y.pub > subs[s].since /\ y.pub <= Len(log)
                /\ y.val = log[y.pub]
                /\ i > 1 => subs[s].yielded[i - 1].pub < y.pub

\* a subscriber that yielded a value, skipped one and yielded a later one
C3_Witness ==
    \E s \in SubIds :
        /\ Live(s) /\ subs[s].missed > 0 /\ Len(subs[s].yielded) >= 2
        /\ subs[s].yielded[1].pub + 1 < subs[s].yielded[2].pub

----------------------------------------------------------------------------
\* C4: a subscriber never yields a value published before its subscribe
\* call: pulled before any further publish it reports Pending and yields
\* nothing; one created after a publish never yields that publish, and, as
\* long as it does not lag, pulls every later one.
C4_NothingOlder(s) ==
    /\ \A i \in 1..Len(subs[s].yielded) : subs[s].yielded[i].pub > subs[s].since
    /\ NeverLagged(s) =>
            Len(subs[s].yielded) + Unread(s) + InFlight = Len(log) - subs[s].since

C4_FreshIsPending(s) ==
    (PollNext(s) /\ alive /\ Len(log) = subs[s].since)
        => subs'[s].pc = "parked" /\ subs'[s].yielded = <<>>

C4_NoReplay ==
    /\ [](\A s \in SubIds : Live(s) => C4_NothingOlder(s))
    /\ [][\A s \in SubIds : C4_FreshIsPending(s)]_vars

\* a second subscriber, created after the first publish, that yielded the second
C4_Witness ==
    /\ Live(1) /\ Live(2) /\ subs[1].since = 0 /\ subs[2].since = 1
    /\ Len(subs[2].yielded) = 1 /\ subs[2].yielded[1].pub = 2

----------------------------------------------------------------------------
\* C5: once the Observable is dropped, every live subscriber that keeps
\* being pulled reports end-of-sequence (also one that was parked on Pending
\* at the drop: the close wakes it); the end is reported only after the drop
\* and after the value the channel still retained for the subscriber, the
\* last one published, has been yielded.
C5_EndOnlyAfterLast(s) ==
    subs[s].pc = "ended" =>
        /\ ~alive /\ Unread(s) = 0
        /\ Len(log) > subs[s].since =>
                subs[s].yielded # <<>> /\ Last(subs[s].yielded).pub = Len(log)

C5_EndAfterDrop ==
    /\ \A s \in SubIds :
            (~alive /\ Live(s)) ~> (~Live(s) \/ subs[s].pc = "ended")
    /\ [](\A s \in SubIds : Live(s) => C5_EndOnlyAfterLast(s))

\* a subscriber that reached the end after yielding the last published value
C5_Witness ==
    \E s \in SubIds :
        /\ ~alive /\ Live(s) /\ subs[s].pc = "ended"
        /\ subs[s].yielded # <<>> /\ Last(subs[s].yielded).pub = Len(log)

----------------------------------------------------------------------------
\* C6: a subscriber with k >= 2 unread publishes (more than the Capacity the
\* channel retains): its next pull is told Lagged(k - 1) by the channel,
\* surfaces nothing and retries; the retry yields the value most recently
\* handed to the channel (or lags again if yet another one was published in
\* between); the k - 1 skipped are counted as missed and never yielded; the
\* pull after that is Pending, or end-of-sequence once the Observable is
\* dropped.
C6_LagStep(s) ==
    (PollNext(s) /\ Unread(s) > Capacity) =>
        /\ subs'[s].pc = "retry"
        /\ subs'[s].yielded = subs[s].yielded
        /\ subs'[s].missed = subs[s].missed + Unread(s) - Capacity
        /\ Unread(s)' = Capacity

C6_RetryStep(s) ==
    (PollNext(s) /\ subs[s].pc = "retry" /\ Unread(s) = Capacity) =>
        LET newest == Len(log) - InFlight
        IN  /\ subs'[s].pc = "ready"
            /\ subs'[s].yielded =
                    Append(subs[s].yielded, [pub |-> newest, val |-> log[newest]])
            /\ Unread(s)' = 0

C6_NextPull(s) ==
    (PollNext(s) /\ Unread(s) = 0) =>
        /\ subs'[s].yielded = subs[s].yielded
        /\ subs'[s].pc = IF alive THEN "parked" ELSE "ended"

C6_Skipped(s) ==
    /\ subs[s].pc = "retry" => Unread(s) >= Capacity /\ subs[s].missed > 0
    /\ Len(subs[s].yielded) + subs[s].missed <= Len(log) - subs[s].since
    /\ \A i, j \in 1..Len(subs[s].yielded) :
            i < j => subs[s].yielded[i].pub < subs[s].yielded[j].pub

C6_LagYieldsLatest ==
    /\ [](\A s \in SubIds : Live(s) => C6_Skipped(s))
    /\ [][\A s \in SubIds : C6_LagStep(s) /\ C6_RetryStep(s) /\ C6_NextPull(s)]_vars

\* a subscriber that did not pull during two publishes or more, then yielded
\* the last one only and got Pending
C6_Witness ==
    \E s \in SubIds :
        /\ Live(s) /\ subs[s].pc = "parked" /\ subs[s].missed >= 1
        /\ Len(subs[s].yielded) = 1 /\ subs[s].yielded[1].pub = Len(log)
        /\ Len(log) - subs[s].since >= 2

----------------------------------------------------------------------------
\* C7: every subscriber live when a value is published and pulled from then
\* on yields that value, unless a later one is published (or it is dropped);
\* and whenever a pull reports Pending or end-of-sequence, the value yielded
\* last is the one most recently handed to the channel.
C7_LastBeforePending(s) ==
    (subs[s].pc \in {"parked", "ended"} /\ Len(log) - InFlight > subs[s].since) =>
        /\ subs[s].yielded # <<>>
        /\ Last(subs[s].yielded).pub = Len(log) - InFlight
        /\ Last(subs[s].yielded).val = log[Len(log) - InFlight]

C7_EventuallyLatest ==
    /\ \A s \in SubIds : \A n \in 1..MaxPublish :
            (Live(s) /\ subs[s].since < n /\ Len(log) = n)
                ~> \/ ~Live(s)
                   \/ Len(log) > n
                   \/ subs[s].yielded # <<>> /\ Last(subs[s].yielded).pub = n
    /\ [](\A s \in SubIds : Live(s) => C7_LastBeforePending(s))

\* a subscriber that missed values and, parked, has yielded the last published
C7_Witness ==
    \E s \in SubIds :
        /\ Live(s) /\ subs[s].pc = "parked" /\ subs[s].missed >= 1
        /\ Len(log) = MaxPublish /\ Last(subs[s].yielded).pub = Len(log)
        /\ Last(subs[s].yielded).val = log[Len(log)]

----------------------------------------------------------------------------
\* C8: after set(v) and replace(v), get returns v; after update(f), get
\* returns f applied to the value held before; and nothing but a call on
\* the Observable changes what get returns: not the send, not a subscribe,
\* not a pull or a drop of a subscriber, whatever the subscribers have read.
C8_Installs ==
    /\ \A v \in Values : (Set(v) \/ Replace(v)) => Get' = v
    /\ \A f \in Mutators : Update(f) => Get' = f[Get]
    /\ (SenderSend \/ Subscribe) => Get' = Get
    /\ \A s \in SubIds : (PollNext(s) \/ DropSubscriber(s)) => Get' = Get

C8_GetReturnsInstalled ==
    /\ [][C8_Installs]_vars
    /\ []((alive /\ call.op \in {"set", "replace", "update"}) => Get = Last(log))

\* update has returned while a subscriber has read none of the two publishes
C8_Witness ==
    /\ alive /\ wpc = "idle" /\ call.op = "update" /\ Get = Last(log)
    /\ \E s \in SubIds : Live(s) /\ Unread(s) >= 2 /\ subs[s].yielded = <<>>

----------------------------------------------------------------------------
\* C9: replace(v) returns the value get returned just before the call;
\* set(v) and replace(v) have the same effect on the held value and on the
\* channel: v is installed and published, and handed to the channel exactly
\* when there is a receiver.
C9_Effect(v) ==
    /\ Get' = v
    /\ log' = Append(log, v)
    /\ wpc' = IF \E s \in SubIds : Live(s) THEN "send" ELSE "idle"
    /\ UNCHANGED <<alive, tail, buffer, subs>>

C9_Step ==
    \A v \in Values :
        /\ Replace(v) => call'.ret = <<Get>> /\ C9_Effect(v)
        /\ Set(v) => call'.ret = <<>> /\ C9_Effect(v)

C9_ReplaceReturnsPrevious == [][C9_Step]_vars

\* replace has returned a value other than the one it installed
C9_Witness ==
    /\ alive /\ wpc = "idle" /\ call.op = "replace"
    /\ call.ret # <<>> /\ call.ret[1] # Get
    /\ \E s \in SubIds : Live(s) /\ Unread(s) = 1

----------------------------------------------------------------------------
\* C10: update_eq with a closure that leaves the value equal to what it
\* was: nothing is published and the channel and the subscribers are left
\* as they were; with a closure that changes it: the new value is installed
\* and published, and its send gives every live subscriber one more unread
\* value, the new one, and wakes it.
C10_Unchanged(f) ==
    (UpdateEq(f) /\ f[Get] = Get) =>
        /\ wpc' = "idle"
        /\ UNCHANGED <<value, tail, buffer, subs, log>>

C10_Changed(f) ==
    (UpdateEq(f) /\ f[Get] # Get) =>
        /\ Get' = f[Get]
        /\ log' = Append(log, f[Get])
        /\ wpc' = IF \E s \in SubIds : Live(s) THEN "send" ELSE "idle"
        /\ UNCHANGED <<tail, buffer, subs>>

C10_OneDelivery ==
    (SenderSend /\ call.op = "update_eq") =>
        \A s \in SubIds : Live(s) =>
            /\ Unread(s)' = Unread(s) + 1
            /\ buffer'[tail.pos % Capacity].pos = tail.pos
            /\ buffer'[tail.pos % Capacity].val = <<Get>>
            /\ subs'[s].pc # "parked"
            /\ subs'[s].yielded = subs[s].yielded

C10_UpdateEqPublishesIffChanged ==
    [][/\ \A f \in Mutators : C10_Unchanged(f) /\ C10_Changed(f)
       /\ C10_OneDelivery]_vars

\* update_eq changed the value and a subscriber has yielded it
C10_Witness ==
    /\ call.op = "update_eq" /\ wpc = "idle"
    /\ \E s \in SubIds :
            /\ Live(s) /\ subs[s].yielded # <<>>
            /\ Last(subs[s].yielded) = [pub |-> Len(log), val |-> Get]

----------------------------------------------------------------------------
\* C11: set, replace and update called while a subscriber is live always
\* publish, also when the value installed equals the value held before: the
\* call reaches the send, the send gives every live subscriber one more
\* unread value, the one installed, and a subscriber that never lagged and
\* has pulled everything has yielded one value per call, equal values
\* included.
C11_CallPublishes ==
    (\E s \in SubIds : Live(s)) =>
        /\ \A v \in Values :
                (Set(v) \/ Replace(v)) => log' = Append(log, v) /\ wpc' = "send"
        /\ \A f \in Mutators :
                Update(f) => log' = Append(log, f[Get]) /\ wpc' = "send"

C11_SendDelivers ==
    (SenderSend /\ call.op \in {"set", "replace", "update"}) =>
        \A s \in SubIds : Live(s) =>
            /\ Unread(s)' = Unread(s) + 1
            /\ buffer'[tail.pos % Capacity].val = <<Get>>
            /\ buffer'[tail.pos % Capacity].pub = Len(log)

C11_OnePerCall(s) ==
    (NeverLagged(s) /\ Unread(s) = 0 /\ InFlight = 0) =>
        /\ Len(subs[s].yielded) = Len(log) - subs[s].since
        /\ \A i \in 1..Len(subs[s].yielded) :
                subs[s].yielded[i] =
                    [pub |-> subs[s].since + i, val |-> log[subs[s].since + i]]

C11_AlwaysPublishes ==
    /\ [][C11_CallPublishes /\ C11_SendDelivers]_vars
    /\ [](\A s \in SubIds : Live(s) => C11_OnePerCall(s))

\* update left the value as it was and a subscriber has yielded it again
C11_Witness ==
    /\ call.op = "update" /\ wpc = "idle"
    /\ \E s \in SubIds :
            /\ Live(s) /\ NeverLagged(s) /\ Len(subs[s].yielded) >= 2
            /\ Last(subs[s].yielded) = [pub |-> Len(log), val |-> Get]
            /\ subs[s].yielded[Len(subs[s].yielded) - 1] =
                    [pub |-> Len(log) - 1, val |-> Get]

----------------------------------------------------------------------------
\* C12: from the same state and with the same closure, update_hash and
\* update_eq leave the same held value, the same publish history and the same
\* channel and writer state (they differ in the name of the call only)
\* whenever the hashes of the value before and after are equal exactly when
\* the values are; their sends then deliver alike.  And whenever the two
\* hashes differ, update_hash publishes, and with a live subscriber its send
\* gives every live subscriber the new value.
C12_Coincide(f) == (Hash(f[Get]) = Hash(Get)) <=> (f[Get] = Get)

\* what a step leaves, but for the name of the call, when it publishes
\* exactly if `changed`
C12_Effect(f, changed) ==
    /\ value' = f[Get]
    /\ log' = IF changed THEN Append(log, f[Get]) ELSE log
    /\ wpc' = IF changed /\ ReceiverCount # 0 THEN "send" ELSE "idle"
    /\ call'.ret = <<>> /\ call'.err = FALSE
    /\ UNCHANGED <<alive, tail, buffer, subs>>

C12_SideBySide ==
    \A f \in Mutators :
        /\ UpdateEq(f) => C12_Effect(f, f[Get] # Get)
        /\ (UpdateHash(f) /\ C12_Coincide(f)) => C12_Effect(f, f[Get] # Get)
        /\ UpdateHash(f) => C12_Effect(f, Hash(f[Get]) # Hash(Get))

C12_HashSendDelivers ==
    (SenderSend /\ call.op = "update_hash") =>
        \A s \in SubIds : Live(s) =>
            /\ Unread(s)' = Unread(s) + 1
            /\ buffer'[tail.pos % Capacity] =
                    [pos |-> tail.pos, val |-> <<Get>>, pub |-> Len(log)]
            /\ subs'[s].pc # "parked"

C12_HashLikeEq == [][C12_SideBySide /\ C12_HashSendDelivers]_vars

\* update_hash changed the value to one of another hash and a subscriber
\* has yielded it
C12_Witness ==
    /\ call.op = "update_hash" /\ wpc = "idle"
    /\ \E s \in SubIds :
            /\ Live(s) /\ Len(subs[s].yielded) >= 2
            /\ Last(subs[s].yielded) = [pub |-> Len(log), val |-> Get]
            /\ Hash(subs[s].yielded[Len(subs[s].yielded) - 1].val) # Hash(Get)

----------------------------------------------------------------------------
\* C13: once a pull of a subscriber has reported end-of-sequence, every
\* later pull of that subscriber reports end-of-sequence at once: it yields
\* nothing more, never parks on Pending and never retries; nothing is
\* sent on the closed channel and the subscriber stays as it is until it is
\* dropped.
C13_StaysEnded(s) ==
    (Live(s) /\ subs[s].pc = "ended") =>
        /\ PollNext(s) => subs'[s] = subs[s]
        /\ Live(s)' => subs'[s] = subs[s]
        /\ tail'.closed /\ tail'.pos = tail.pos /\ buffer' = buffer

C13_Ended(s) ==
    (Live(s) /\ subs[s].pc = "ended") =>
        /\ ~alive /\ tail.closed /\ wpc = "idle"
        /\ InnerPoll(subs[s].next).res = "Closed"

C13_ExhaustedIsTerminal ==
    /\ [][\A s \in SubIds : C13_StaysEnded(s)]_vars
    /\ [](\A s \in SubIds : C13_Ended(s))

\* a subscriber that yielded a value reported the end, while another one
\* has not been pulled to its end yet
C13_Witness ==
    \E s, t \in SubIds :
        /\ Live(s) /\ subs[s].pc = "ended" /\ subs[s].yielded # <<>>
        /\ Live(t) /\ subs[t].pc = "ready" /\ Unread(t) > 0

----------------------------------------------------------------------------
\* C14: a pull or the drop of one subscriber leaves the held value, the
\* writer, the values the channel retains and every other subscriber as they
\* were, and what the next poll of every other subscriber returns is the
\* same before and after; the channel counts exactly the live subscribers,
\* so that whatever the others do, a publish made while a subscriber is live
\* reaches the channel and becomes one more unread value of that subscriber.
C14_Frame(s) ==
    (PollNext(s) \/ DropSubscriber(s)) =>
        /\ Get' = Get
        /\ UNCHANGED <<alive, buffer, wpc, call, log>>
        /\ tail'.pos = tail.pos /\ tail'.closed = tail.closed
        /\ \A t \in SubIds \ {s} :
                /\ subs'[t] = subs[t]
                /\ Live(t) => InnerPoll(subs[t].next)' = InnerPoll(subs[t].next)

C14_StillReceives(t) ==
    Live(t) =>
        /\ (\E v \in Values : Set(v) \/ Replace(v)) => wpc' = "send"
        /\ (\E f \in Mutators : Update(f)) => wpc' = "send"
        /\ SenderSend =>
                /\ Unread(t)' = Unread(t) + 1
                /\ buffer'[tail.pos % Capacity].val = <<Get>>

C14_Independent ==
    /\ [][\A s \in SubIds : C14_Frame(s) /\ C14_StillReceives(s)]_vars
    /\ [](ReceiverCount = Cardinality({t \in SubIds : Live(t)}))

\* the first subscriber was dropped, the second has yielded every publish
C14_Witness ==
    /\ subs[1].st = "dropped" /\ Live(2) /\ subs[2].since = 0
    /\ YieldedPubs(2) = [i \in 1..MaxPublish |-> i]

----------------------------------------------------------------------------
\* C15: at the level of the channel, for every live receiver, at any time:
\* values received + values reported missed by Lagged signals + values still
\* unread = the publishes made since the receiver was created (one of them
\* may still be in the writer's hands).  Every publish the cursor has passed
\* was either received, as the exact value published, or is counted in a
\* Lagged signal; the cursor skips a value only in a poll that returns
\* Lagged, by exactly the count that poll reports.
C15_Passed(s) == Len(log) - InFlight - Unread(s)

C15_Sum(s) ==
    /\ Len(subs[s].yielded) + subs[s].missed + Unread(s) + InFlight
            = Len(log) - subs[s].since
    /\ Unread(s) >= 0 /\ subs[s].missed >= 0

C15_Covered(s) ==
    LET got == {subs[s].yielded[i].pub : i \in 1..Len(subs[s].yielded)}
        passed == (subs[s].since + 1)..C15_Passed(s)
    IN  /\ got \subseteq passed
        /\ Cardinality(got) = Len(subs[s].yielded)
        /\ Cardinality(passed \ got) = subs[s].missed
        /\ \A i \in 1..Len(subs[s].yielded) :
                subs[s].yielded[i].val = log[subs[s].yielded[i].pub]

C15_Signalled(s) ==
    PollNext(s) =>
        LET r == InnerPoll(subs[s].next)
        IN  /\ subs'[s].next - subs[s].next =
                    (Len(subs'[s].yielded) - Len(subs[s].yielded))
                        + (subs'[s].missed - subs[s].missed)
            /\ subs'[s].missed # subs[s].missed <=>
                    (r.res = "Lagged" /\ r.missed > 0 /\ subs'[s].pc = "retry")
            /\ r.res = "Lagged" => r.missed = Unread(s) - Capacity

C15_Accounting ==
    /\ [](\A s \in SubIds : Live(s) => C15_Sum(s) /\ C15_Covered(s))
    /\ [][\A s \in SubIds : C15_Signalled(s)]_vars

\* a receiver that received a value, has just been told that it missed the
\* next ones, and has the latest still to read
C15_Witness ==
    \E s \in SubIds :
        /\ Live(s) /\ Len(subs[s].yielded) >= 1 /\ subs[s].missed >= 1
        /\ Unread(s) >= 1 /\ subs[s].pc = "retry"

----------------------------------------------------------------------------
\* C16: a subscriber that keeps being polled does not starve: whatever the
\* writer publishes in between, a pull that is retrying after a Lagged
\* eventually completes, with a value or with end-of-sequence.
C16_NoStarvation ==
    \A s \in SubIds :
        (subs[s].pc = "retry") ~> (subs[s].pc \in {"ready", "ended"})

----------------------------------------------------------------------------
\* C17 (as stated): whenever a call made while a subscriber is live changes
\* what get returns, the call publishes the new value (update_hash
\* included, whatever the hash).
C17_Original ==
    [][((\E s \in SubIds : Live(s)) /\ Get' # Get)
            => (log' = Append(log, Get') /\ wpc' = "send")]_vars

\* C17 (amended): only set, replace, update, update_eq and update_hash
\* change what get returns.  With a live subscriber a change made by one of
\* the first four is published by that call, and so is a change made by
\* update_hash when the hashes of the two values differ; the send that
\* follows hands the value held to the channel.  A change made by update_hash
\* between two values of the same hash is not published: the channel and
\* the subscribers are left as they were.
C17_Ops == {"set", "replace", "update", "update_eq", "update_hash"}

C17_Step ==
    Get' # Get =>
        /\ call'.op \in C17_Ops /\ wpc = "idle" /\ alive
        /\ IF call'.op = "update_hash" /\ Hash(Get') = Hash(Get)
           THEN wpc' = "idle" /\ UNCHANGED <<log, tail, buffer, subs>>
           ELSE /\ log' = Append(log, Get')
                /\ (\E s \in SubIds : Live(s)) => wpc' = "send"

C17_Sent ==
    (SenderSend /\ (\E s \in SubIds : Live(s))) =>
        /\ buffer'[tail.pos % Capacity] =
                [pos |-> tail.pos, val |-> <<Get>>, pub |-> Len(log)]
        /\ Get = Last(log)

C17_ChangeIsPublished == [][C17_Step /\ C17_Sent]_vars

\* update_hash has changed the value to another one of the same hash: the
\* subscriber, with nothing left to read, has last yielded the former value
C17_Witness ==
    /\ alive /\ wpc = "idle" /\ call.op = "update_hash"
    /\ \E s \in SubIds :
            /\ Live(s) /\ Unread(s) = 0 /\ subs[s].yielded # <<>>
            /\ Last(subs[s].yielded).pub = Len(log)
            /\ Last(subs[s].yielded).val # Get
            /\ Hash(Last(subs[s].yielded).val) = Hash(Get)

----------------------------------------------------------------------------
\* C18: with no live subscriber, set, replace and update install the new
\* value and return without an error, and the send is skipped: the slot, the
\* tail and the subscribers are left as they were, which is also what a send
\* attempted with no receiver leaves.  A subscriber created afterwards starts
\* with nothing to read, never yields a value published before it was
\* created and is handed every later one.
C18_Skipped ==
    ReceiverCount = 0 =>
        /\ \A v \in Values : (Set(v) \/ Replace(v)) =>
                /\ Get' = v /\ wpc' = "idle" /\ ~call'.err
                /\ UNCHANGED <<alive, tail, buffer, subs>>
        /\ \A f \in Mutators : Update(f) =>
                /\ Get' = f[Get] /\ wpc' = "idle" /\ ~call'.err
                /\ UNCHANGED <<alive, tail, buffer, subs>>
        /\ SenderSend => wpc' = "idle" /\ UNCHANGED <<value, alive, tail, buffer, subs>>

C18_CreatedAfterwards ==
    \A s \in SubIds :
        /\ (Subscribe /\ ~Live(s) /\ Live(s)') =>
                /\ Unread(s)' = 0 /\ subs'[s].yielded = <<>>
                /\ subs'[s].since = Len(log)
                /\ InnerPoll(subs[s].next)'.res = "Empty"
                /\ UNCHANGED <<value, buffer>> /\ tail'.pos = tail.pos
        /\ (SenderSend /\ Live(s)) => Unread(s)' = Unread(s) + 1

C18_OnlyLater(s) ==
    /\ \A i \in 1..Len(subs[s].yielded) :
            /\ subs[s].yielded[i].pub > subs[s].since
            /\ subs[s].yielded[i].val = log[subs[s].yielded[i].pub]
    /\ Unread(s) + InFlight <= Len(log) - subs[s].since

C18_NoSubscriberNoOp ==
    /\ [][C18_Skipped /\ C18_CreatedAfterwards]_vars
    /\ [](\A s \in SubIds : Live(s) => C18_OnlyLater(s))

\* two values were published before any subscriber existed and never reached
\* the channel; the first subscriber, created then, has yielded the third
C18_Witness ==
    /\ Live(1) /\ subs[2].st = "none" /\ subs[1].since = 2
    /\ tail.pos = 1 /\ Len(log) = 3
    /\ subs[1].yielded = <<[pub |-> 3, val |-> Get]>>

----------------------------------------------------------------------------
\* C19: when the last live subscriber is dropped between the receiver_count
\* check and the send of broadcast_update, the send fails and the failure is
\* ignored: the call returns (the writer never panics), the value held is
\* the one the call installed, and the channel is left as it was.  After
\* that a subscribe creates a subscriber with nothing to read and a call
\* installs and publishes as usual.
C19_FailedSend ==
    (SenderSend /\ ReceiverCount = 0) =>
        /\ wpc' = "idle" /\ call'.err /\ call'.op = call.op
        /\ Get' = Get /\ Get = Last(log)
        /\ UNCHANGED <<alive, tail, buffer, subs, log>>

C19_Afterwards ==
    call.err =>
        /\ \A v \in Values : (Set(v) \/ Replace(v)) =>
                /\ Get' = v /\ log' = Append(log, v) /\ ~call'.err
                /\ wpc' = IF \E s \in SubIds : Live(s) THEN "send" ELSE "idle"
        /\ \A s \in SubIds : (Subscribe /\ ~Live(s) /\ Live(s)') =>
                /\ Unread(s)' = 0 /\ ReceiverCount' = ReceiverCount + 1
                /\ UNCHANGED <<value, call, wpc>>
        /\ (SenderSend /\ ReceiverCount # 0) =>
                /\ wpc' = "idle" /\ ~call'.err
                /\ \A s \in SubIds : Live(s) => Unread(s)' = Unread(s) + 1

C19_Returned ==
    /\ wpc \in {"idle", "send"}
    /\ (wpc = "send" /\ ReceiverCount = 0) => \A s \in SubIds : ~Live(s)
    /\ call.err => /\ Get = Last(log) /\ tail.pos < Len(log)
                    /\ call.op \in {"set", "replace", "update", "update_eq", "update_hash"}

C19_SendFailureIgnored ==
    /\ [][C19_FailedSend /\ C19_Afterwards]_vars
    /\ []C19_Returned

\* the send of the last call failed, its subscriber dropped; the call has
\* returned and a new subscriber was created since
C19_Witness ==
    /\ alive /\ wpc = "idle" /\ call.err /\ Get = Last(log)
    /\ subs[1].st = "dropped" /\ Live(2) /\ subs[2].since = Len(log)

----------------------------------------------------------------------------
\* C20: a poll that returns Lagged leaves the cursor on the oldest value the
\* channel retains, so that the poll which follows it in the loop of
\* poll_next, with no send in between, returns that value: never Lagged
\* again, Pending or end-of-sequence, also when the Observable has been
\* dropped meanwhile.  The loop retries once more only if a send came in
\* between, and nothing but a send adds to what a subscriber has to read.
C20_AfterLagged(s) ==
    (PollNext(s) /\ InnerPoll(subs[s].next).res = "Lagged") =>
        /\ subs'[s].pc = "retry"
        /\ Unread(s)' = Capacity
        /\ InnerPoll(subs[s].next)'.res = "Value"

C20_Retry(s) ==
    (PollNext(s) /\ subs[s].pc = "retry") =>
        IF Unread(s) = Capacity
        THEN /\ subs'[s].pc = "ready"
             /\ subs'[s].yielded =
                    Append(subs[s].yielded,
                           [pub |-> buffer[subs[s].next % Capacity].pub,
                            val |-> buffer[subs[s].next % Capacity].val[1]])
             /\ subs'[s].missed = subs[s].missed
        ELSE Unread(s) > Capacity /\ subs'[s].pc = "retry"

C20_OnlySendAdds(s) ==
    (Live(s) /\ Live(s)' /\ Unread(s)' # Unread(s)) =>
        \/ SenderSend /\ Unread(s)' = Unread(s) + 1
        \/ PollNext(s) /\ Unread(s)' < Unread(s)

C20_Retrying(s) ==
    subs[s].pc = "retry" =>
        /\ Unread(s) >= Capacity
        /\ InnerPoll(subs[s].next).res \in {"Value", "Lagged"}
        /\ InnerPoll(subs[s].next).res = "Value" <=> Unread(s) = Capacity

C20_AtMostOneRetry ==
    /\ [][\A s \in SubIds :
                C20_AfterLagged(s) /\ C20_Retry(s) /\ C20_OnlySendAdds(s)]_vars
    /\ [](\A s \in SubIds : Live(s) => C20_Retrying(s))

\* a subscriber that was told Lagged on the closed channel is about to
\* retry, with the retained value to read
C20_Witness ==
    \E s \in SubIds :
        /\ ~alive /\ tail.closed /\ Live(s) /\ subs[s].pc = "retry"
        /\ Unread(s) = Capacity /\ subs[s].missed >= 1

====
